---- MODULE Spec2Model ----
(***************************************************************************)
(* The refresh dispatcher of src/framebuffer/refresh.rs (full_refresh,     *)
(* partial_refresh, wait_refresh_complete) and the element redraw of       *)
(* src/ui_extensions/element.rs (UIElementWrapper::draw).                  *)
(*                                                                         *)
(* A u32 is kept at its width.  TLC's integers stop at 2^31-1, so a u32 is *)
(* the pair <<hi, lo>> of its 16-bit halves and the arithmetic of the code *)
(* (+, -, max, comparisons) is done on the halves.  An addition that       *)
(* leaves the 32 bits wraps in a build without overflow checks and panics  *)
(* in a build with them; the variable overflow_checks says which build is  *)
(* running.                                                                *)
(***************************************************************************)
EXTENDS Integers, Sequences, FiniteSets, TLC

VARIABLES
    overflow_checks,  \* the build: TRUE = arithmetic overflow panics, FALSE = wraps
    marker,           \* core::Framebuffer.marker (AtomicU32)
    call,             \* per caller: the dispatcher call it is in, with its locals
    sent,             \* the MXCFB_SEND_UPDATE ioctls the device got, in order
    ncalls,           \* dispatcher calls started so far
    element,          \* the UIElementWrapper that is drawn
    active_regions,   \* the active-region table of the ApplicationContext
    drawlog,          \* what the draw call that has just returned did, in
                      \* order; empty after any other step
    drawcall,         \* the draw call that has just been made: its arguments
                      \* and the state it started from; NoDraw after any
                      \* other step
    panicked,         \* a draw call was ended by an arithmetic panic
    ndraws            \* draw calls made so far

dispatcher_vars == <<overflow_checks, marker, call, sent, ncalls>>
element_vars == <<element, active_regions, drawlog, drawcall, panicked, ndraws>>
vars == <<dispatcher_vars, element_vars>>

----------------------------------------------------------------------------
(* Bounds of the model *)

MaxCalls == 3        \* dispatcher calls in one behaviour of Spec
NumCallers == 2      \* logical callers of SpecConcurrent
MaxConcCalls == 3    \* dispatcher calls in one behaviour of SpecConcurrent
MaxDraws == 3        \* draw calls in one behaviour of SpecDraw

----------------------------------------------------------------------------
(* u32 arithmetic *)

Half == 2^16

U32 == (0 .. Half - 1) \X (0 .. Half - 1)

\* the u32 of a small natural number
U(n) == <<n \div Half, n % Half>>

MaxU32 == <<Half - 1, Half - 1>>

Lt32(a, b) == a[1] < b[1] \/ (a[1] = b[1] /\ a[2] < b[2])
Le32(a, b) == a = b \/ Lt32(a, b)
Gt32(a, b) == Lt32(b, a)
Ge32(a, b) == Le32(b, a)

\* a + b in u32, wrapping
Add32(a, b) ==
    LET lo == a[2] + b[2]
        hi == a[1] + b[1] + (lo \div Half)
    IN  <<hi % Half, lo % Half>>

\* a + b leaves the 32 bits
AddOverflows(a, b) == a[1] + b[1] + ((a[2] + b[2]) \div Half) >= Half

\* a - b in u32, wrapping
Sub32(a, b) ==
    LET borrow == IF a[2] < b[2] THEN 1 ELSE 0
        lo == a[2] - b[2] + borrow * Half
        hi == a[1] - b[1] - borrow
    IN  <<(hi + Half) % Half, lo>>

SubOverflows(a, b) == Lt32(a, b)

\* ::std::cmp::max
Max32(a, b) == IF Lt32(a, b) THEN b ELSE a

----------------------------------------------------------------------------
(* Constants of the program *)

MIN_SEND_UPDATE_DIMENSION_PX == 32
DISPLAYWIDTH == 1404
DISPLAYHEIGHT == 1872
EPDC_FLAG_TEST_COLLISION == 1024

Modes == {"DryRun", "Async", "Wait"}

Rect(t, l, w, h) == [top |-> t, left |-> l, width |-> w, height |-> h]

\* (mutant) height and width taken from the wrong field
screen_swapped == Rect(U(0), U(0), U(DISPLAYHEIGHT), U(DISPLAYWIDTH))

\* the rectangle full_refresh builds from var_screen_info
screen == Rect(U(0), U(0), U(DISPLAYWIDTH), U(DISPLAYHEIGHT))

----------------------------------------------------------------------------
(* partial_refresh: the region it sends *)

\* (mutant) > for >=: a region that starts on the edge is let through
OutOfBoundsStrict(region) ==
    \/ Gt32(region.left, U(DISPLAYWIDTH))
    \/ Gt32(region.top, U(DISPLAYHEIGHT))

\* refresh.rs:93-94, "out of bounds, entirely ignored"
OutOfBounds(region) ==
    \/ Ge32(region.left, U(DISPLAYWIDTH))
    \/ Ge32(region.top, U(DISPLAYHEIGHT))

\* refresh.rs:99-100 and 103-106 for one axis: the edge length sent for a
\* region that starts at `offset` with edge `len` on an axis `limit` long
ClampedEdge(offset, len, limit) ==
    LET edge == Max32(len, U(MIN_SEND_UPDATE_DIMENSION_PX))
        max_x == Add32(offset, edge)
    IN  IF Gt32(max_x, limit) THEN Sub32(edge, Sub32(max_x, limit)) ELSE edge

\* the arithmetic of ClampedEdge leaves the 32 bits (a panic when the build
\* checks overflow)
ClampedEdgeOverflows(offset, len, limit) ==
    LET edge == Max32(len, U(MIN_SEND_UPDATE_DIMENSION_PX))
        max_x == Add32(offset, edge)
    IN  \/ AddOverflows(offset, edge)
        \/ /\ Gt32(max_x, limit)
           /\ SubOverflows(edge, Sub32(max_x, limit))

\* refresh.rs:99-112
ClampedRegion(region) ==
    Rect(region.top, region.left,
         ClampedEdge(region.left, region.width, U(DISPLAYWIDTH)),
         ClampedEdge(region.top, region.height, U(DISPLAYHEIGHT)))

ClampOverflows(region) ==
    \/ ClampedEdgeOverflows(region.left, region.width, U(DISPLAYWIDTH))
    \/ ClampedEdgeOverflows(region.top, region.height, U(DISPLAYHEIGHT))

\* refresh.rs:119-122
PartialFlags(mode) == IF mode = "DryRun" THEN EPDC_FLAG_TEST_COLLISION ELSE 0

\* refresh.rs:135-136: the modes that go on to MXCFB_WAIT_FOR_UPDATE_COMPLETE
PartialWaits(mode) == mode \in {"Wait", "DryRun"}

\* (mutant) the counter is stored back without the + 1
NextMarkerStuck(m) == m

\* (mutant) the counter moved on by two
NextMarkerByTwo(m) == Add32(m, U(2))

\* refresh.rs:55 and 128: the value swapped into self.marker
NextMarker(m) == Add32(m, U(1))

NextMarkerOverflows(m) == AddOverflows(m, U(1))

\* refresh.rs:44-54 and 114-127: the mxcfb_update_data of a request.  The
\* waveform, temperature, dither and quant_bit arguments are copied into the
\* request unchanged and read by nothing else; they are left out.
UpdateData(update_mode, m, flags, region) ==
    [update_mode |-> update_mode, update_marker |-> m, flags |-> flags,
     update_region |-> region]

NoRequest == UpdateData("NONE", U(0), 0, Rect(U(0), U(0), U(0), U(0)))

\* refresh.rs:63-66, 137-140, 158-161 with the ioctl that follows: the
\* collision_test field after MXCFB_WAIT_FOR_UPDATE_COMPLETE.  The struct is
\* built with collision_test 0; the device writes the field when the ioctl
\* succeeds and leaves it when the ioctl fails.
CollisionTest(ok, reported) == IF ok THEN reported ELSE U(0)

----------------------------------------------------------------------------
(* The callers and the device *)

Callers == 1 .. NumCallers

\* the caller of the single-threaded specification
MainCaller == CHOOSE c \in Callers : \A d \in Callers : c <= d

\* one ioctl as the device saw it: the marker it carried, whether it
\* succeeded, the collision flag the device had to report for it, and for a
\* send-update the request
Ioctl(name, m, ok, reported, req) ==
    [ioctl |-> name, marker |-> m, ok |-> ok, reported |-> reported,
     request |-> req]

\* a caller outside any call
Idle ==
    [pc |-> "idle", op |-> "none", mode |-> "none", wait_completion |-> FALSE,
     region |-> NoRequest.update_region, arg_marker |-> U(0),
     marker_before |-> U(0), whole |-> NoRequest, trace |-> <<>>,
     ret |-> U(0)]

CanCall(c, limit) == call[c].pc \in {"idle", "done"} /\ ncalls < limit

\* what the device may report in collision_test
Collisions == {U(0), U(1)}

\* regions handed to partial_refresh
Regions ==
    { Rect(U(0), U(0), U(10), U(10)),
      Rect(U(1870), U(0), U(32), U(32)),
      Rect(U(0), U(1400), U(100), U(40)),
      Rect(U(100), U(100), U(500), U(500)),
      Rect(U(0), U(0), U(2000), U(3000)),
      Rect(U(1871), U(1403), U(0), U(0)),
      Rect(U(1872), U(0), U(32), U(32)),
      Rect(U(0), U(1404), U(32), U(32)),
      Rect(MaxU32, MaxU32, U(1), U(1)),
      Rect(U(0), U(1000), MaxU32, U(32)),
      Rect(U(1000), U(0), U(32), Sub32(MaxU32, U(999))) }

\* the regions of the concurrent specification
FewRegions ==
    { Rect(U(0), U(0), U(10), U(10)),
      Rect(U(1872), U(0), U(32), U(32)) }

\* the marker a fresh Framebuffer starts with, and the marker of one that
\* has dispatched 2^32 - 3 requests since
InitMarkers == {U(1), Sub32(MaxU32, U(1))}

----------------------------------------------------------------------------
(* full_refresh, refresh.rs:30-79 *)

\* refresh.rs:38-54: build the request, reading self.marker
full_refresh(c, wait_completion, limit) ==
    /\ CanCall(c, limit)
    /\ call' = [call EXCEPT ![c] =
            [Idle EXCEPT !.pc = "swap", !.op = "full_refresh",
                         !.wait_completion = wait_completion,
                         !.region = screen,
                         !.marker_before = marker,
                         !.whole = UpdateData("FULL", marker, 0, screen)]]
    /\ ncalls' = ncalls + 1
    /\ UNCHANGED <<overflow_checks, marker, sent, element_vars>>

(* partial_refresh, refresh.rs:81-155 *)

\* refresh.rs:90-127: drop the region or clamp it and build the request,
\* reading self.marker
partial_refresh(c, region, mode, limit) ==
    /\ CanCall(c, limit)
    /\ call' = [call EXCEPT ![c] =
            IF OutOfBounds(region)
            THEN [Idle EXCEPT !.pc = "done", !.op = "partial_refresh",
                              !.mode = mode, !.region = region,
                              !.marker_before = marker, !.ret = U(0)]
            ELSE IF overflow_checks /\ ClampOverflows(region)
            THEN [Idle EXCEPT !.pc = "panic", !.op = "partial_refresh",
                              !.mode = mode, !.region = region,
                              !.marker_before = marker]
            ELSE [Idle EXCEPT !.pc = "swap", !.op = "partial_refresh",
                              !.mode = mode, !.region = region,
                              !.marker_before = marker,
                              !.whole = UpdateData("PARTIAL", marker,
                                                   PartialFlags(mode),
                                                   ClampedRegion(region))]]
    /\ ncalls' = ncalls + 1
    /\ UNCHANGED <<overflow_checks, marker, sent, element_vars>>

\* refresh.rs:55 and 128: self.marker.swap(whole.update_marker + 1, Relaxed)
marker_swap(c) ==
    /\ call[c].pc = "swap"
    /\ IF overflow_checks /\ NextMarkerOverflows(call[c].whole.update_marker)
       THEN /\ call' = [call EXCEPT ![c].pc = "panic"]
            /\ UNCHANGED marker
       ELSE /\ marker' = NextMarker(call[c].whole.update_marker)
            /\ call' = [call EXCEPT ![c].pc = "send"]
    /\ UNCHANGED <<overflow_checks, sent, ncalls, element_vars>>

\* the call goes on to MXCFB_WAIT_FOR_UPDATE_COMPLETE (refresh.rs:62, 135-136)
Waits(k) ==
    \/ k.op = "full_refresh" /\ k.wait_completion
    \/ k.op = "partial_refresh" /\ PartialWaits(k.mode)

\* (mutant) a failed MXCFB_SEND_UPDATE is sent again
send_update_retry(c, ok) ==
    /\ call[c].pc = "send"
    /\ LET k == call[c]
           io == Ioctl("SEND_UPDATE", k.whole.update_marker, ok, U(0), k.whole)
       IN  /\ sent' = Append(sent, [caller |-> c,
                                     marker |-> k.whole.update_marker,
                                     update_mode |-> k.whole.update_mode])
           /\ call' = [call EXCEPT ![c] =
                  IF ~ok
                  THEN [k EXCEPT !.trace = Append(k.trace, io)]
                  ELSE IF Waits(k)
                  THEN [k EXCEPT !.pc = "wait", !.trace = Append(k.trace, io)]
                  ELSE [k EXCEPT !.pc = "done", !.trace = Append(k.trace, io),
                                 !.ret = k.whole.update_marker]]
    /\ UNCHANGED <<overflow_checks, marker, ncalls, element_vars>>

\* refresh.rs:57-60 and 130-133: ioctl(MXCFB_SEND_UPDATE), its result unread;
\* a call that does not wait returns whole.update_marker (refresh.rs:78, 153)
send_update(c, ok) ==
    /\ call[c].pc = "send"
    /\ LET k == call[c]
           io == Ioctl("SEND_UPDATE", k.whole.update_marker, ok, U(0), k.whole)
       IN  /\ sent' = Append(sent, [caller |-> c,
                                     marker |-> k.whole.update_marker,
                                     update_mode |-> k.whole.update_mode])
           /\ call' = [call EXCEPT ![c] =
                  IF Waits(k)
                  THEN [k EXCEPT !.pc = "wait", !.trace = Append(k.trace, io)]
                  ELSE [k EXCEPT !.pc = "done", !.trace = Append(k.trace, io),
                                 !.ret = k.whole.update_marker]]
    /\ UNCHANGED <<overflow_checks, marker, ncalls, element_vars>>

\* (mutant) the marker is returned in every mode
WaitReturnMarker(k, collision_test) == k.whole.update_marker

\* refresh.rs:78 and 151: what a waiting call returns
WaitReturn(k, collision_test) ==
    IF k.op = "full_refresh" THEN k.whole.update_marker ELSE collision_test

\* (mutant) the wait is keyed by the counter, not by the request's marker
WaitKeyLatest(k) == marker

\* refresh.rs:64 and 138: the marker the wait is keyed by
WaitKey(k) == k.whole.update_marker

\* refresh.rs:62-78 and 136-152: ioctl(MXCFB_WAIT_FOR_UPDATE_COMPLETE)
wait_for_update_complete(c, ok, reported) ==
    /\ call[c].pc = "wait"
    /\ LET k == call[c]
           collision_test == CollisionTest(ok, reported)
           io == Ioctl("WAIT_FOR_UPDATE_COMPLETE", WaitKey(k), ok,
                       reported, NoRequest)
       IN  call' = [call EXCEPT ![c] =
                  [k EXCEPT !.pc = "done", !.trace = Append(k.trace, io),
                            !.ret = WaitReturn(k, collision_test)]]
    /\ UNCHANGED <<overflow_checks, marker, sent, ncalls, element_vars>>

(* wait_refresh_complete, refresh.rs:157-173 *)
wait_refresh_complete(c, m, ok, reported, limit) ==
    /\ CanCall(c, limit)
    /\ LET collision_test == CollisionTest(ok, reported)
           io == Ioctl("WAIT_FOR_UPDATE_COMPLETE", m, ok, reported,
                       NoRequest)
       IN  call' = [call EXCEPT ![c] =
                  [Idle EXCEPT !.pc = "done", !.op = "wait_refresh_complete",
                               !.arg_marker = m, !.marker_before = marker,
                               !.trace = <<io>>, !.ret = collision_test]]
    /\ ncalls' = ncalls + 1
    /\ UNCHANGED <<overflow_checks, marker, sent, element_vars>>

\* markers a caller may wait for: one it was given, or any other number
WaitMarkers == {marker, U(0)} \cup {sent[i].marker : i \in DOMAIN sent}

\* Option<mxcfb_rect>
None == [some |-> FALSE, rect |-> NoRequest.update_region]
Some(rect) == [some |-> TRUE, rect |-> rect]

\* element.rs:36-50 and 162-166: UIElementWrapper::default().  x and y are
\* usize, 32 bits wide on the device.
DefaultElement ==
    [x |-> U(0), y |-> U(0), refresh |-> "Refresh", last_drawn_rect |-> None,
     inner |-> "Unspecified"]

\* no draw call has just been made
NoDraw ==
    [made |-> FALSE, handler |-> FALSE, before |-> DefaultElement,
     table |-> {}, marker |-> U(0), new_rect |-> None.rect,
     returned |-> FALSE, again |-> FALSE]

\* the specifications of the dispatcher alone draw nothing
NoElement ==
    /\ element = DefaultElement
    /\ active_regions = {}
    /\ drawlog = <<>>
    /\ drawcall = NoDraw
    /\ panicked = FALSE
    /\ ndraws = 0

----------------------------------------------------------------------------
(* One caller on one thread *)

Init ==
    /\ overflow_checks \in BOOLEAN
    /\ marker \in InitMarkers
    /\ call = [c \in Callers |-> Idle]
    /\ sent = <<>>
    /\ ncalls = 0
    /\ NoElement

CallFull == \E w \in BOOLEAN : full_refresh(MainCaller, w, MaxCalls)
CallPartial ==
    \E r \in Regions, m \in Modes : partial_refresh(MainCaller, r, m, MaxCalls)
CallWait ==
    \E m \in WaitMarkers, ok \in BOOLEAN, col \in Collisions :
        wait_refresh_complete(MainCaller, m, ok, col, MaxCalls)
StepSwap == marker_swap(MainCaller)
StepSend == \E ok \in BOOLEAN : send_update(MainCaller, ok)
StepWait ==
    \E ok \in BOOLEAN, col \in Collisions :
        wait_for_update_complete(MainCaller, ok, col)

Next ==
    \/ CallFull
    \/ CallPartial
    \/ CallWait
    \/ StepSwap
    \/ StepSend
    \/ StepWait

Spec == Init /\ [][Next]_vars

----------------------------------------------------------------------------
(* Several callers, their steps interleaved *)

InitConcurrent ==
    /\ overflow_checks \in BOOLEAN
    /\ marker = U(1)
    /\ call = [c \in Callers |-> Idle]
    /\ sent = <<>>
    /\ ncalls = 0
    /\ NoElement

ConcFull ==
    \E c \in Callers, w \in BOOLEAN : full_refresh(c, w, MaxConcCalls)
ConcPartial ==
    \E c \in Callers, r \in FewRegions, m \in Modes :
        partial_refresh(c, r, m, MaxConcCalls)
ConcSwap == \E c \in Callers : marker_swap(c)
ConcSend == \E c \in Callers, ok \in BOOLEAN : send_update(c, ok)
ConcWait ==
    \E c \in Callers, ok \in BOOLEAN, col \in Collisions :
        wait_for_update_complete(c, ok, col)

NextConcurrent ==
    \/ ConcFull
    \/ ConcPartial
    \/ ConcSwap
    \/ ConcSend
    \/ ConcWait

SpecConcurrent == InitConcurrent /\ [][NextConcurrent]_vars

----------------------------------------------------------------------------
(* partial_refresh as one call, as UIElementWrapper::draw makes it *)

\* how the device may answer the ioctls of one call: all succeed and a
\* collision is reported, or all fail
Devices ==
    { [send_ok |-> TRUE, wait_ok |-> TRUE, reported |-> U(1)],
      [send_ok |-> FALSE, wait_ok |-> FALSE, reported |-> U(0)] }

\* refresh.rs:81-155 run from entry to return with the counter at mk: the
\* counter it leaves, the ioctls it made, what it returned, or a panic
PartialRefreshCall(mk, region, mode, dev) ==
    LET k0 == [Idle EXCEPT !.op = "partial_refresh", !.mode = mode,
                           !.region = region, !.marker_before = mk]
    IN  IF OutOfBounds(region)
        THEN [panic |-> FALSE, marker |-> mk, ioctls |-> <<>>, ret |-> U(0)]
        ELSE IF overflow_checks
                /\ (ClampOverflows(region) \/ NextMarkerOverflows(mk))
        THEN [panic |-> TRUE, marker |-> mk, ioctls |-> <<>>, ret |-> U(0)]
        ELSE
        LET whole == UpdateData("PARTIAL", mk, PartialFlags(mode),
                                ClampedRegion(region))
            k == [k0 EXCEPT !.whole = whole]
            send == Ioctl("SEND_UPDATE", mk, dev.send_ok, U(0), whole)
            wait == Ioctl("WAIT_FOR_UPDATE_COMPLETE", WaitKey(k), dev.wait_ok,
                          dev.reported, NoRequest)
        IN  IF PartialWaits(mode)
            THEN [panic |-> FALSE, marker |-> NextMarker(mk),
                  ioctls |-> <<send, wait>>,
                  ret |-> WaitReturn(k, CollisionTest(dev.wait_ok, dev.reported))]
            ELSE [panic |-> FALSE, marker |-> NextMarker(mk),
                  ioctls |-> <<send>>, ret |-> mk]

\* no call made
NoCall(mk) == [panic |-> FALSE, marker |-> mk, ioctls |-> <<>>, ret |-> U(0)]

\* the send-update requests among the ioctls, as `sent` keeps them
SentBy(ioctls) ==
    LET sends == SelectSeq(ioctls, LAMBDA io : io.ioctl = "SEND_UPDATE")
    IN  [i \in DOMAIN sends |->
            [caller |-> MainCaller, marker |-> sends[i].marker,
             update_mode |-> sends[i].request.update_mode]]

----------------------------------------------------------------------------
(* The collaborators of draw: the ApplicationContext *)

\* mxcfb_rect::invalid(), the rectangle that stands for "nothing drawn yet"
InvalidRect == Rect(U(9999), U(9999), U(0), U(0))

\* `as u16`
AsU16(v) == v[2]

\* the entry covers the point (y, x)
Covers(e, y, x) ==
    /\ e.top <= y /\ y < e.top + e.height
    /\ e.left <= x /\ x < e.left + e.width

\* app.find_active_region(y, x): the entries one of which is returned, none
\* when the set is empty
find_active_region(table, y, x) == {e \in table : Covers(e, y, x)}

\* app.remove_active_region_at_point(y, x): the tables it may leave, having
\* removed the entry found at the point if there is one
remove_active_region_at_point(table, y, x) ==
    IF find_active_region(table, y, x) = {}
    THEN {table}
    ELSE {table \ {e} : e \in find_active_region(table, y, x)}

\* an id no entry of the table has
FreeId(table) ==
    CHOOSE n \in 1 .. Cardinality(table) + 1 :
        /\ \A e \in table : e.id # n
        /\ \A k \in 1 .. n - 1 : \E e \in table : e.id = k

\* app.create_active_region(top, left, height, width, handler, element); id
\* tells apart entries that are equal in every field
create_active_region(table, id, top, left, height, width, owner) ==
    table \cup {[id |-> id, top |-> top, left |-> left, height |-> height,
                 width |-> width, element |-> owner]}

\* app.display_text / app.display_image with the element's refresh policy:
\* the refresh of the rectangle drawn that the policy asks of the dispatcher
DisplayRefresh(mk, rect, refresh, dev) ==
    IF refresh = "NoRefresh" THEN NoCall(mk)
    ELSE IF refresh = "Refresh" THEN PartialRefreshCall(mk, rect, "Async", dev)
    ELSE PartialRefreshCall(mk, rect, "Wait", dev)

\* one step of a draw call as the log keeps it
Event(ev, rect, y, x, ioctls) ==
    [ev |-> ev, rect |-> rect, y |-> y, x |-> x, ioctls |-> ioctls]

\* app.display_text(y, x, ..) / app.display_image(.., y, x, ..): the
\* rectangles the drawing collaborator may report for content drawn at
\* (x, y): content that starts at (x, y), and content that starts above it
DrawnRects(x, y) ==
    { Rect(y, x, U(50), U(20)),
      Rect(Sub32(y, U(10)), x, U(50), U(30)) }

\* positions an element may be given, as <<x, y>>
Positions == {<<U(100), U(100)>>, <<U(200), U(300)>>, <<U(100), U(300)>>}

Variants == {"Text", "Image", "Unspecified"}
Policies == {"NoRefresh", "Refresh", "RefreshAndWait"}

\* the entry of another element, over the point (y 300, x 100)
OtherEntry ==
    [id |-> 0, top |-> 295, left |-> 95, height |-> 10, width |-> 10,
     element |-> "other"]

----------------------------------------------------------------------------
(* UIElementWrapper::draw, element.rs:81-159 *)

\* (mutant) a draw that clears whatever the element holds
ClearsAlways(last_drawn_rect) == TRUE

\* element.rs:90-91: the element holds a rectangle to clear
Clears(last_drawn_rect) == last_drawn_rect.some

\* (mutant) the old rectangle refreshed wherever it is
RefreshesOldAlways(rect, x, y) == TRUE

\* element.rs:106: the old rectangle is refreshed after it was filled
RefreshesOld(rect, x, y) == rect.top # y /\ rect.left # x

\* (mutant) a draw that forgets what it drew
LastDrawnUnset(rect) == None

\* element.rs:158: what draw leaves in last_drawn_rect
LastDrawn(rect) == Some(rect)

\* (mutant) step 3 made whether or not a handler was passed
ReconcileWithoutHandler(table, id, old_filled_rect, rect, x, y, handler) ==
    IF old_filled_rect # rect
    THEN LET removed ==
                 IF old_filled_rect # InvalidRect
                 THEN remove_active_region_at_point(
                          table, AsU16(old_filled_rect.top),
                          AsU16(old_filled_rect.left))
                 ELSE {table}
         IN  { IF find_active_region(t, AsU16(y), AsU16(x)) = {}
               THEN create_active_region(t, id, AsU16(rect.top),
                                         AsU16(rect.left), AsU16(rect.height),
                                         AsU16(rect.width), "this")
               ELSE t : t \in removed }
    ELSE {table}

\* (mutant) step 3 without the comparison of the old and the new rectangle
ReconcileAlways(table, id, old_filled_rect, rect, x, y, handler) ==
    IF handler
    THEN LET removed ==
                 IF old_filled_rect # InvalidRect
                 THEN remove_active_region_at_point(
                          table, AsU16(old_filled_rect.top),
                          AsU16(old_filled_rect.left))
                 ELSE {table}
         IN  { IF find_active_region(t, AsU16(y), AsU16(x)) = {}
               THEN create_active_region(t, id, AsU16(rect.top),
                                         AsU16(rect.left), AsU16(rect.height),
                                         AsU16(rect.width), "this")
               ELSE t : t \in removed }
    ELSE {table}

\* element.rs:134-154: the tables step 3 may leave
Reconcile(table, id, old_filled_rect, rect, x, y, handler) ==
    IF old_filled_rect # rect /\ handler
    THEN LET removed ==
                 IF old_filled_rect # InvalidRect
                 THEN remove_active_region_at_point(
                          table, AsU16(old_filled_rect.top),
                          AsU16(old_filled_rect.left))
                 ELSE {table}
         IN  { IF find_active_region(t, AsU16(y), AsU16(x)) = {}
               THEN create_active_region(t, id, AsU16(rect.top),
                                         AsU16(rect.left), AsU16(rect.height),
                                         AsU16(rect.width), "this")
               ELSE t : t \in removed }
    ELSE {table}

\* (mutant) step 3 looking for an entry at (y, x) before it removes the old one
ReconcileLogFindFirst(table, after, old_filled_rect, rect, x, y, handler) ==
    IF old_filled_rect # rect /\ handler
    THEN <<Event("find_active_region", rect, AsU16(y), AsU16(x), <<>>)>>
         \o (IF old_filled_rect # InvalidRect
             THEN <<Event("remove_active_region_at_point", old_filled_rect,
                          AsU16(old_filled_rect.top),
                          AsU16(old_filled_rect.left), <<>>)>>
             ELSE <<>>)
         \o (IF \E e \in after : e \notin table
             THEN <<Event("create_active_region", rect, AsU16(rect.top),
                          AsU16(rect.left), <<>>)>>
             ELSE <<>>)
    ELSE <<>>

\* element.rs:134-154: the calls step 3 makes on the table, in order
ReconcileLog(table, after, old_filled_rect, rect, x, y, handler) ==
    IF old_filled_rect # rect /\ handler
    THEN (IF old_filled_rect # InvalidRect
          THEN <<Event("remove_active_region_at_point", old_filled_rect,
                       AsU16(old_filled_rect.top), AsU16(old_filled_rect.left),
                       <<>>)>>
          ELSE <<>>)
         \o <<Event("find_active_region", rect, AsU16(y), AsU16(x), <<>>)>>
         \o (IF \E e \in after : e \notin table
             THEN <<Event("create_active_region", rect, AsU16(rect.top),
                          AsU16(rect.left), <<>>)>>
             ELSE <<>>)
    ELSE <<>>

\* handler: an ActiveRegionHandler is passed; new_rect: the rectangle the
\* drawing collaborator reports; dev: how the device answers the ioctls made
\* during the call
draw(handler, new_rect, dev) ==
    /\ ~panicked
    /\ ndraws < MaxDraws
    /\ LET x == element.x
           y == element.y
           had == Clears(element.last_drawn_rect)
           last == element.last_drawn_rect.rect
           \* element.rs:90-120
           fill == IF had
                   THEN <<Event("fill_rect", last, 0, 0, <<>>)>>
                   ELSE <<>>
           refreshes == had /\ RefreshesOld(last, x, y)
           pr1 == IF refreshes
                  THEN PartialRefreshCall(marker, last, "Wait", dev)
                  ELSE NoCall(marker)
           log1 == fill \o
                   (IF refreshes
                    THEN <<Event("partial_refresh", last, 0, 0, pr1.ioctls)>>
                    ELSE <<>>)
           old_filled_rect == IF had THEN last ELSE InvalidRect
           \* element.rs:123-131
           pr2 == DisplayRefresh(pr1.marker, new_rect, element.refresh, dev)
           display == IF element.inner = "Text" THEN "display_text"
                      ELSE "display_image"
           log2 == log1 \o <<Event(display, new_rect, AsU16(y), AsU16(x),
                                   pr2.ioctls)>>
           \* the call as it is remembered; again: it repeats the call made
           \* right before it (same handler, same content drawn)
           this == [made |-> TRUE, handler |-> handler, before |-> element,
                    table |-> active_regions, marker |-> marker,
                    new_rect |-> new_rect, returned |-> TRUE,
                    again |-> /\ drawcall.made
                              /\ drawcall.returned
                              /\ drawcall.handler = handler
                              /\ drawcall.new_rect = new_rect]
       IN  IF pr1.panic
           THEN /\ panicked' = TRUE
                /\ drawlog' = log1
                /\ drawcall' = [this EXCEPT !.returned = FALSE]
                /\ UNCHANGED <<marker, sent, element, active_regions>>
           ELSE IF element.inner = "Unspecified"
           THEN /\ drawlog' = log1
                /\ drawcall' = this
                /\ marker' = pr1.marker
                /\ sent' = sent \o SentBy(pr1.ioctls)
                /\ UNCHANGED <<panicked, element, active_regions>>
           ELSE IF pr2.panic
           THEN /\ panicked' = TRUE
                /\ drawlog' = log2
                /\ drawcall' = [this EXCEPT !.returned = FALSE]
                /\ marker' = pr1.marker
                /\ sent' = sent \o SentBy(pr1.ioctls)
                /\ UNCHANGED <<element, active_regions>>
           ELSE /\ marker' = pr2.marker
                /\ sent' = sent \o SentBy(pr1.ioctls) \o SentBy(pr2.ioctls)
                /\ \E after \in Reconcile(active_regions, FreeId(active_regions),
                                          old_filled_rect, new_rect, x, y,
                                          handler) :
                      /\ active_regions' = after
                      /\ drawlog' = log2
                             \o ReconcileLog(active_regions, after,
                                             old_filled_rect, new_rect, x, y,
                                             handler)
                             \o <<Event("last_drawn_rect", new_rect, 0, 0, <<>>)>>
                \* element.rs:158
                /\ element' = [element EXCEPT !.last_drawn_rect = LastDrawn(new_rect)]
                /\ drawcall' = this
                /\ UNCHANGED panicked
    /\ ndraws' = ndraws + 1
    /\ UNCHANGED <<overflow_checks, call, ncalls>>

\* the owner of the element moves it, changes what it shows or how it is
\* refreshed (the fields are pub, element.rs:43-50)
set_position(pos) ==
    /\ ~panicked
    /\ <<element.x, element.y>> # pos
    /\ element' = [element EXCEPT !.x = pos[1], !.y = pos[2]]
    /\ drawlog' = <<>>
    /\ drawcall' = NoDraw
    /\ UNCHANGED <<dispatcher_vars, active_regions, panicked, ndraws>>

set_inner(variant) ==
    /\ ~panicked
    /\ element.inner # variant
    /\ element' = [element EXCEPT !.inner = variant]
    /\ drawlog' = <<>>
    /\ drawcall' = NoDraw
    /\ UNCHANGED <<dispatcher_vars, active_regions, panicked, ndraws>>

set_refresh(policy) ==
    /\ ~panicked
    /\ element.refresh # policy
    /\ element' = [element EXCEPT !.refresh = policy]
    /\ drawlog' = <<>>
    /\ drawcall' = NoDraw
    /\ UNCHANGED <<dispatcher_vars, active_regions, panicked, ndraws>>

\* a fresh Framebuffer, where the two builds do the same, or one about to
\* run out of markers in either build
InitDraw ==
    /\ overflow_checks \in BOOLEAN
    /\ marker \in InitMarkers
    /\ marker = U(1) => ~overflow_checks
    /\ call = [c \in Callers |-> Idle]
    /\ sent = <<>>
    /\ ncalls = 0
    /\ \E pos \in Positions, variant \in Variants, policy \in Policies :
          element = [DefaultElement EXCEPT !.x = pos[1], !.y = pos[2],
                                           !.inner = variant,
                                           !.refresh = policy]
    /\ active_regions \in {{}, {OtherEntry}}
    /\ drawlog = <<>>
    /\ drawcall = NoDraw
    /\ panicked = FALSE
    /\ ndraws = 0

Draw ==
    \E handler \in BOOLEAN, new_rect \in DrawnRects(element.x, element.y),
       dev \in Devices :
        draw(handler, new_rect, dev)
SetPosition == \E pos \in Positions : set_position(pos)
SetInner == \E variant \in Variants : set_inner(variant)
SetRefresh == \E policy \in Policies : set_refresh(policy)

NextDraw ==
    \/ Draw
    \/ SetPosition
    \/ SetInner
    \/ SetRefresh

SpecDraw == InitDraw /\ [][NextDraw]_vars

----------------------------------------------------------------------------
(* Properties of the dispatcher *)

DW == U(DISPLAYWIDTH)
DH == U(DISPLAYHEIGHT)
MinPx == U(MIN_SEND_UPDATE_DIMENSION_PX)
Min32(a, b) == IF Lt32(b, a) THEN b ELSE a

\* the ioctls of one kind in a call's trace
Sends(k) == {i \in DOMAIN k.trace : k.trace[i].ioctl = "SEND_UPDATE"}
WaitsIn(k) ==
    {i \in DOMAIN k.trace : k.trace[i].ioctl = "WAIT_FOR_UPDATE_COMPLETE"}

\* the call's region starts inside the device
InBounds(k) == Lt32(k.region.top, DH) /\ Lt32(k.region.left, DW)

\* C1 as stated: the markers of successive send-update requests are strictly
\* increasing, so no marker value is attached to two dispatched requests.
C1_MarkersStrictlyIncreasing ==
    \A i, j \in DOMAIN sent :
        i < j => Lt32(sent[i].marker, sent[j].marker)

\* C1 amended: each send-update request of a single caller carries the marker
\* of the request before it plus one modulo 2^32; the markers increase
\* strictly up to 2^32 - 1, and no value is attached to two requests within
\* 2^32 consecutive dispatches.
C1_MarkersSuccessive ==
    /\ \A i \in DOMAIN sent :
          i + 1 \in DOMAIN sent =>
              /\ sent[i + 1].marker = Add32(sent[i].marker, U(1))
              /\ sent[i].marker # MaxU32 =>
                     Lt32(sent[i].marker, sent[i + 1].marker)
              /\ sent[i].marker = MaxU32 =>
                     ~overflow_checks /\ sent[i + 1].marker = U(0)
    /\ \A i, j \in DOMAIN sent : i # j => sent[i].marker # sent[j].marker

\* full and partial requests mixed, dispatched across the wrap of the counter
C1_Witness ==
    /\ Len(sent) >= 3
    /\ sent[2].marker = MaxU32
    /\ \E i, j \in DOMAIN sent :
          sent[i].update_mode = "FULL" /\ sent[j].update_mode = "PARTIAL"

\* C2: with callers interleaved, no two dispatched requests carry the same
\* marker and the counter never moves backwards.
C2_AtomicAllocation ==
    [][/\ \A i, j \in DOMAIN sent' : i # j => sent'[i].marker # sent'[j].marker
       /\ Le32(marker, marker')]_vars

\* C3: a partial_refresh of a region whose origin is outside the device
\* returns 0 and issues no device call, in every mode.
C3_OutOfBoundsDropped ==
    \A c \in Callers :
        LET k == call[c] IN
        (/\ k.op = "partial_refresh"
         /\ (Ge32(k.region.top, DH) \/ Ge32(k.region.left, DW)))
        => /\ k.pc = "done"
           /\ k.ret = U(0)
           /\ k.trace = <<>>
           /\ marker = k.marker_before

C3_Witness ==
    \E c \in Callers :
        /\ call[c].op = "partial_refresh"
        /\ call[c].pc = "done"
        /\ call[c].mode = "Wait"
        /\ call[c].region.top = DH
        /\ Lt32(call[c].region.left, DW)

\* C4: the region partial_refresh dispatches keeps top and left and has
\* width = min(max(width, 32), DISPLAYWIDTH - left) and
\* height = min(max(height, 32), DISPLAYHEIGHT - top).
C4_DispatchedRegion ==
    \A c \in Callers :
        LET k == call[c] IN
        (k.op = "partial_refresh" /\ InBounds(k)) =>
            \A i \in Sends(k) :
                LET r == k.trace[i].request.update_region IN
                /\ r.top = k.region.top
                /\ r.left = k.region.left
                /\ r.width = Min32(Max32(k.region.width, MinPx),
                                   Sub32(DW, k.region.left))
                /\ r.height = Min32(Max32(k.region.height, MinPx),
                                    Sub32(DH, k.region.top))

\* C5: every region partial_refresh hands to send-update has
\* 1 <= width <= DISPLAYWIDTH - left and 1 <= height <= DISPLAYHEIGHT - top,
\* whatever u32 values the input region holds.
C5_RegionWithinDevice ==
    \A c \in Callers :
        LET k == call[c] IN
        k.op = "partial_refresh" =>
            \A i \in Sends(k) :
                LET r == k.trace[i].request.update_region IN
                /\ Le32(r.width, Sub32(DW, r.left))
                /\ Le32(r.height, Sub32(DH, r.top))
                /\ Ge32(r.width, U(1))
                /\ Ge32(r.height, U(1))

\* C6: for an in-bounds region, partial_refresh returns in Async mode the
\* marker of the request it dispatched, and in Wait and DryRun mode the
\* collision flag the device reported for that marker (0 when the wait
\* failed), not the marker.
C6_ReturnValue ==
    \A c \in Callers :
        LET k == call[c] IN
        (k.op = "partial_refresh" /\ InBounds(k) /\ k.pc = "done") =>
            /\ k.mode = "Async" =>
                  /\ Len(k.trace) = 1
                  /\ k.trace[1].ioctl = "SEND_UPDATE"
                  /\ k.ret = k.trace[1].request.update_marker
            /\ k.mode \in {"Wait", "DryRun"} =>
                  /\ Len(k.trace) = 2
                  /\ k.trace[2].ioctl = "WAIT_FOR_UPDATE_COMPLETE"
                  /\ k.trace[2].marker = k.trace[1].request.update_marker
                  /\ k.ret = IF k.trace[2].ok THEN k.trace[2].reported ELSE U(0)

\* a Wait call returned the device's collision flag 1, which is not its marker
C6_Witness ==
    \E c \in Callers :
        LET k == call[c] IN
        /\ k.op = "partial_refresh" /\ k.pc = "done" /\ k.mode = "Wait"
        /\ InBounds(k)
        /\ k.ret = U(1)
        /\ k.whole.update_marker # U(1)

C6_WitnessAsync ==
    \E c \in Callers :
        LET k == call[c] IN
        /\ k.op = "partial_refresh" /\ k.pc = "done" /\ k.mode = "Async"
        /\ k.ret = k.marker_before

\* what C7 says of a full_refresh that has returned, but for the counter
FullRefreshDispatch(k) ==
    /\ Cardinality(Sends(k)) = 1
    /\ k.trace[1].ioctl = "SEND_UPDATE"
    /\ k.trace[1].request.update_mode = "FULL"
    /\ k.trace[1].request.update_region = Rect(U(0), U(0), DW, DH)
    /\ k.trace[1].request.flags = 0
    /\ k.trace[1].request.update_marker = k.marker_before
    /\ k.ret = k.trace[1].request.update_marker

\* C7 as stated: a full_refresh dispatches one full-mode request for the
\* whole surface with flags 0, returns its marker and leaves the counter
\* exactly one higher than before the call.
C7_FullRefreshAdvances ==
    \A c \in Callers :
        LET k == call[c] IN
        (k.op = "full_refresh" /\ k.pc = "done") =>
            /\ FullRefreshDispatch(k)
            /\ Lt32(k.marker_before, marker)
            /\ marker = Add32(k.marker_before, U(1))

\* C7 amended: the same, for a call made while the counter is below
\* 2^32 - 1; at 2^32 - 1 a build that wraps dispatches and returns marker
\* 2^32 - 1 and leaves the counter at 0, and a build that checks overflow
\* panics before it dispatches.
C7_FullRefreshBelowMax ==
    \A c \in Callers :
        LET k == call[c] IN
        k.op = "full_refresh" =>
            /\ k.pc = "done" =>
                  /\ FullRefreshDispatch(k)
                  /\ marker = Add32(k.marker_before, U(1))
                  /\ k.marker_before # MaxU32 => Lt32(k.marker_before, marker)
                  /\ k.marker_before = MaxU32 => marker = U(0)
            /\ k.marker_before # MaxU32 => k.pc # "panic"
            /\ (k.marker_before = MaxU32 /\ overflow_checks) =>
                  (k.pc \in {"swap", "panic"} /\ k.trace = <<>>)

\* a full_refresh that did not wait and whose send-update failed has returned
C7_Witness ==
    \E c \in Callers :
        LET k == call[c] IN
        /\ k.op = "full_refresh" /\ k.pc = "done"
        /\ ~k.wait_completion
        /\ ~k.trace[1].ok
        /\ k.marker_before = U(1)

\* C8: the wait-for-complete ioctl is issued by full_refresh(wait = true), by
\* partial_refresh(Wait | DryRun) on a region that is not dropped and by
\* wait_refresh_complete, and by nothing else; in the first two once, after
\* the send-update of the same call and keyed by the marker that call
\* dispatched.
C8_WaitIssuedExactly ==
    \A c \in Callers :
        LET k == call[c]
            waiting ==
                \/ k.op = "full_refresh" /\ k.wait_completion
                \/ /\ k.op = "partial_refresh"
                   /\ k.mode \in {"Wait", "DryRun"}
                   /\ InBounds(k)
        IN
        /\ \A i \in WaitsIn(k) :
              \/ k.op = "wait_refresh_complete"
              \/ /\ waiting
                 /\ i = 2
                 /\ k.trace[1].ioctl = "SEND_UPDATE"
                 /\ k.trace[i].marker = k.trace[1].request.update_marker
                 /\ k.trace[i].marker = k.marker_before
        /\ k.pc = "done" =>
              /\ waiting => Cardinality(WaitsIn(k)) = 1
              /\ k.op = "wait_refresh_complete" =>
                    /\ Len(k.trace) = 1
                    /\ WaitsIn(k) = {1}
                    /\ k.trace[1].marker = k.arg_marker
              /\ (~waiting /\ k.op # "wait_refresh_complete") =>
                    WaitsIn(k) = {}

\* a DryRun partial_refresh has waited for the marker it dispatched
C8_Witness ==
    \E c \in Callers :
        LET k == call[c] IN
        /\ k.op = "partial_refresh" /\ k.mode = "DryRun" /\ k.pc = "done"
        /\ Len(k.trace) = 2
        /\ k.trace[2].marker = k.marker_before
        /\ marker # k.marker_before

\* the counter after a call that has swapped it
Advanced(k) == Add32(k.marker_before, U(1))

\* C9: a failed send-update or wait-for-complete is not retried and does
\* not stop the call: each ioctl is issued at most once, the call goes on as
\* after a success, a failed wait makes wait_refresh_complete and
\* partial_refresh(Wait | DryRun) return 0 and full_refresh its marker, and
\* the counter is advanced as in the success case.
C9_FailuresNonFatal ==
    \A c \in Callers :
        LET k == call[c] IN
        /\ Cardinality(Sends(k)) <= 1
        /\ Cardinality(WaitsIn(k)) <= 1
        /\ (\E i \in DOMAIN k.trace : ~k.trace[i].ok) =>
              /\ k.pc \in {"wait", "done"}
              /\ k.pc = "wait" => (Len(k.trace) = 1 /\ Waits(k))
              /\ k.pc = "done" =>
                    Len(k.trace) = (IF k.op = "wait_refresh_complete" THEN 1
                                    ELSE IF Waits(k) THEN 2 ELSE 1)
              /\ marker = (IF k.op = "wait_refresh_complete"
                           THEN k.marker_before ELSE Advanced(k))
              /\ k.pc = "done" =>
                    k.ret = (IF k.op = "full_refresh"
                                 THEN k.marker_before
                             ELSE IF k.op = "partial_refresh" /\ k.mode = "Async"
                                 THEN k.marker_before
                             ELSE LET w == k.trace[Len(k.trace)] IN
                                  IF w.ok THEN w.reported ELSE U(0))

\* a partial_refresh in Wait mode whose two ioctls both failed, the device
\* having a collision to report, has returned
C9_Witness ==
    \E c \in Callers :
        LET k == call[c] IN
        /\ k.op = "partial_refresh" /\ k.mode = "Wait" /\ k.pc = "done"
        /\ Len(k.trace) = 2
        /\ ~k.trace[1].ok /\ ~k.trace[2].ok
        /\ k.trace[2].reported = U(1)
        /\ k.ret = U(0)

----------------------------------------------------------------------------
(* Properties of draw *)

\* the entries of the table that belong to the element drawn
Owned == {e \in active_regions : e.element = "this"}

\* C10: after any sequence of draw calls on an element, its position,
\* content and the presence of a handler changing between the calls, the
\* active-region table holds at most one entry owned by the element.
C10_AtMostOneEntry == Cardinality(Owned) <= 1

\* the rectangle an entry of the table spans
EntryRect(e) == Rect(U(e.top), U(e.left), U(e.width), U(e.height))

\* C11: after any sequence of draw calls, every active-region entry owned by
\* the element spans the element's current last_drawn_rect; no entry is left
\* behind at a rectangle the element no longer occupies.
C11_TableInSync ==
    \A e \in Owned :
        /\ element.last_drawn_rect.some
        /\ EntryRect(e) = element.last_drawn_rect.rect

\* the steps of one kind in the log of the draw call just made
Steps(evs) == {i \in DOMAIN drawlog : drawlog[i].ev \in evs}

\* the draw call just made returned (it was not ended by a panic)
Returned == drawcall.made /\ drawcall.returned

\* the entry create_active_region makes for a rectangle
EntryFor(rect) ==
    [top |-> AsU16(rect.top), left |-> AsU16(rect.left),
     height |-> AsU16(rect.height), width |-> AsU16(rect.width),
     element |-> "this"]

\* the table is the one the call started from plus one entry that spans rect
CreatedOne(rect) ==
    \E e \in active_regions :
        /\ e \notin drawcall.table
        /\ active_regions = drawcall.table \cup {e}
        /\ [f \in DOMAIN EntryFor(rect) |-> e[f]] = EntryFor(rect)

\* C12: a draw call on an element in state Unset with a Text variant clears
\* nothing and refreshes no old rectangle, invokes the drawing collaborator
\* exactly once, ends with last_drawn_rect the rectangle the collaborator
\* returned, and, when a handler is supplied and no entry is found at (x, y),
\* makes exactly one create call and no remove call.
C12_FirstDrawOfText ==
    (/\ Returned
     /\ ~drawcall.before.last_drawn_rect.some
     /\ drawcall.before.inner = "Text")
    => /\ Steps({"fill_rect", "partial_refresh"}) = {}
       /\ Cardinality(Steps({"display_text", "display_image"})) = 1
       /\ \A i \in Steps({"display_text", "display_image"}) :
             /\ drawlog[i].ev = "display_text"
             /\ drawlog[i].rect = drawcall.new_rect
             /\ drawlog[i].y = AsU16(drawcall.before.y)
             /\ drawlog[i].x = AsU16(drawcall.before.x)
       /\ element.last_drawn_rect = Some(drawcall.new_rect)
       /\ (/\ drawcall.handler
           /\ find_active_region(drawcall.table, AsU16(drawcall.before.y),
                                 AsU16(drawcall.before.x)) = {})
          => /\ Cardinality(Steps({"create_active_region"})) = 1
             /\ Steps({"remove_active_region_at_point"}) = {}
             /\ CreatedOne(drawcall.new_rect)

\* a first draw of a Text with a handler at a point no entry covers, in a
\* table that holds another element's entry
C12_Witness ==
    /\ Returned
    /\ ~drawcall.before.last_drawn_rect.some
    /\ drawcall.before.inner = "Text"
    /\ drawcall.handler
    /\ drawcall.table = {OtherEntry}
    /\ Cardinality(active_regions) = 2
    /\ Steps({"create_active_region"}) # {}

C14_DrawIdempotentOnTable ==
    (/\ Returned
     /\ drawcall.again
     /\ drawcall.before.refresh = "NoRefresh")
    => active_regions = drawcall.table

\* the second of two such calls with a handler, the first having created the
\* element's entry
C14_Witness ==
    /\ Returned
    /\ drawcall.again
    /\ drawcall.before.refresh = "NoRefresh"
    /\ drawcall.before.inner = "Image"
    /\ drawcall.handler
    /\ Owned # {}
    /\ OtherEntry \in active_regions

\* the rectangle's top-left is not the position (x, y)
TopLeftDiffers(rect, x, y) == rect.top # y \/ rect.left # x

\* C15: in a draw call on a Drawn(old_rect) element, old_rect is filled with
\* the background colour and then a Wait-mode partial refresh of old_rect is
\* issued if and only if old_rect.top # y or old_rect.left # x.
C15_RefreshIffTopLeftDiffers ==
    (drawcall.made /\ drawcall.before.last_drawn_rect.some) =>
        LET old_rect == drawcall.before.last_drawn_rect.rect IN
        /\ Steps({"fill_rect"}) = {1}
        /\ drawlog[1].rect = old_rect
        /\ Steps({"partial_refresh"}) \subseteq {2}
        /\ \A i \in Steps({"partial_refresh"}) : drawlog[i].rect = old_rect
        /\ (Steps({"partial_refresh"}) # {})
               <=> TopLeftDiffers(old_rect, drawcall.before.x,
                                  drawcall.before.y)

\* every step of the first kind comes before every step of the second
Before(evs1, evs2) == \A i \in Steps(evs1), j \in Steps(evs2) : i < j

\* the step dispatched a request and its completion wait has returned
DispatchedAndWaited(step) ==
    /\ Len(step.ioctls) = 2
    /\ step.ioctls[1].ioctl = "SEND_UPDATE"
    /\ step.ioctls[2].ioctl = "WAIT_FOR_UPDATE_COMPLETE"
    /\ step.ioctls[2].marker = step.ioctls[1].marker

\* C16: within one draw call on a Drawn element the old rectangle is filled
\* first, then (when issued) its partial refresh is dispatched and waited
\* for, and only then is the drawing collaborator invoked; the remove
\* precedes the find and the create, and last_drawn_rect is updated last.
C16_StepsInOrder ==
    (Returned /\ drawcall.before.last_drawn_rect.some) =>
        /\ Steps({"fill_rect"}) = {1}
        /\ Before({"fill_rect"}, {"partial_refresh"})
        /\ \A i \in Steps({"partial_refresh"}) : DispatchedAndWaited(drawlog[i])
        /\ Before({"fill_rect", "partial_refresh"},
                  {"display_text", "display_image"})
        /\ Before({"display_text", "display_image"},
                  {"remove_active_region_at_point", "find_active_region",
                   "create_active_region"})
        /\ Before({"remove_active_region_at_point"},
                  {"find_active_region", "create_active_region"})
        /\ Before({"find_active_region"}, {"create_active_region"})
        /\ Steps({"create_active_region"}) # {}
               => Steps({"find_active_region"}) # {}
        /\ drawcall.before.inner # "Unspecified"
               => Steps({"last_drawn_rect"}) = {Len(drawlog)}

\* a draw call that makes every step: fill, refresh of the old rectangle,
\* the collaborator, remove, find, create, last_drawn_rect
C16_Witness ==
    /\ Returned
    /\ drawcall.before.last_drawn_rect.some
    /\ Len(drawlog) = 7
    /\ \A ev \in {"fill_rect", "partial_refresh", "display_text",
                  "remove_active_region_at_point", "find_active_region",
                  "create_active_region", "last_drawn_rect"} :
           Steps({ev}) # {}

\* C17: drawing an element whose variant is Unspecified is a no-op in every
\* element state: last_drawn_rect and the active-region table are unchanged,
\* no drawing collaborator is invoked, no rectangle is filled, no refresh is
\* dispatched and the marker counter is unchanged.
C17_UnspecifiedIsNoOp ==
    (drawcall.made /\ drawcall.before.inner = "Unspecified") =>
        /\ element = drawcall.before
        /\ active_regions = drawcall.table
        /\ Steps({"display_text", "display_image"}) = {}
        /\ Steps({"fill_rect"}) = {}
        /\ Steps({"partial_refresh"}) = {}
        /\ marker = drawcall.marker

\* C18: every draw call on a Text or Image element ends in state
\* Drawn(new_rect), new_rect being the rectangle that call's drawing
\* collaborator returned, whatever the previous state, with or without a
\* handler, whether or not an entry was created or removed.
C18_EndsDrawn ==
    (Returned /\ drawcall.before.inner \in {"Text", "Image"}) =>
        /\ element.last_drawn_rect = Some(drawcall.new_rect)
        /\ element = [drawcall.before EXCEPT
                          !.last_drawn_rect = Some(drawcall.new_rect)]
        /\ \A i \in Steps({"display_text", "display_image"}) :
               drawlog[i].rect = drawcall.new_rect
        /\ Cardinality(Steps({"display_text", "display_image"})) = 1

\* a redraw without a handler that changes the rectangle and leaves the
\* element's entry where it was
C18_Witness ==
    /\ Returned
    /\ drawcall.before.inner = "Image"
    /\ ~drawcall.handler
    /\ drawcall.before.last_drawn_rect.some
    /\ drawcall.before.last_drawn_rect.rect # drawcall.new_rect
    /\ Owned # {}
    /\ element.last_drawn_rect = Some(drawcall.new_rect)

\* the entries the draw call just made took out of the table, and put in
Removed == drawcall.table \ active_regions
Created == active_regions \ drawcall.table

\* the draw call just made reached step 3 with a handler and a rectangle
\* that differs by value from the previous one
Reconciles ==
    /\ Returned
    /\ drawcall.handler
    /\ drawcall.before.inner # "Unspecified"
    /\ drawcall.before.last_drawn_rect # Some(drawcall.new_rect)

\* C19: draw changes the active-region table only when the newly drawn
\* rectangle differs by value from the previous one and a handler was
\* supplied; then it removes the entry at the old rectangle's top-left only if
\* a previous rectangle existed, and creates an entry spanning the new
\* rectangle only if find at (x, y) returns none; a call with no handler
\* makes no create and no remove call.
C19_TableChanges ==
    drawcall.made =>
        LET old == drawcall.before.last_drawn_rect
            y == AsU16(drawcall.before.y)
            x == AsU16(drawcall.before.x)
            table_calls == Steps({"create_active_region",
                                  "remove_active_region_at_point"})
        IN  /\ ~Reconciles =>
                  /\ active_regions = drawcall.table
                  /\ table_calls = {}
            /\ Reconciles =>
                  /\ Cardinality(Steps({"remove_active_region_at_point"}))
                         = IF old.some THEN 1 ELSE 0
                  /\ \A i \in Steps({"remove_active_region_at_point"}) :
                        /\ drawlog[i].y = AsU16(old.rect.top)
                        /\ drawlog[i].x = AsU16(old.rect.left)
                  /\ Cardinality(Removed) <= 1
                  /\ \A e \in Removed :
                        /\ old.some
                        /\ Covers(e, AsU16(old.rect.top), AsU16(old.rect.left))
                  /\ Cardinality(Steps({"find_active_region"})) = 1
                  /\ \A i \in Steps({"find_active_region"}) :
                        drawlog[i].y = y /\ drawlog[i].x = x
                  /\ Cardinality(Created) <= 1
                  /\ Cardinality(Steps({"create_active_region"}))
                         = Cardinality(Created)
                  /\ \A e \in Created :
                        [f \in DOMAIN EntryFor(drawcall.new_rect) |-> e[f]]
                            = EntryFor(drawcall.new_rect)
                  /\ (Created # {})
                         <=> find_active_region(active_regions \ Created,
                                                y, x) = {}

\* a redraw with a handler of a moved element: the entry at the old
\* rectangle is removed and one spanning the new rectangle is created
C19_Witness ==
    /\ Reconciles
    /\ drawcall.before.last_drawn_rect.some
    /\ Removed # {}
    /\ Created # {}
    /\ OtherEntry \in active_regions

\* a draw with a handler that finds another element's entry at (x, y) and
\* creates none
C19_WitnessFound ==
    /\ Reconciles
    /\ Created = {}
    /\ Steps({"find_active_region"}) # {}
    /\ active_regions = {OtherEntry}

----------------------------------------------------------------------------
(* The marker counter and the requests sent *)

\* the call dispatches a request: a full_refresh, or a partial_refresh of a
\* region that starts inside the device
Dispatches(k) ==
    \/ k.op = "full_refresh"
    \/ k.op = "partial_refresh" /\ ~OutOfBounds(k.region)

\* C20: with a single caller the marker counter is its initial value, which
\* the first request carried, plus the number of send-update ioctls issued so
\* far, modulo 2^32: a full_refresh and a partial_refresh that is not dropped
\* advance it by exactly one before their send-update, a dropped
\* partial_refresh and wait_refresh_complete leave it unchanged.
C20_MarkerCountsSends ==
    LET k == call[MainCaller]
        n == Len(sent)
        \* the counter was advanced for a request that is not sent yet
        pending == IF k.pc = "send" THEN 1 ELSE 0
    IN  /\ n > 0 => marker = Add32(sent[1].marker, U(n + pending))
        /\ (n = 0 /\ k.op # "none") =>
               marker = Add32(k.marker_before, U(pending))
        /\ (Dispatches(k) /\ k.pc \in {"send", "wait", "done"}) =>
               /\ marker = Add32(k.marker_before, U(1))
               /\ Cardinality(Sends(k)) = 1 - pending
        /\ (k.op # "none" /\ ~Dispatches(k)) =>
               /\ marker = k.marker_before
               /\ Sends(k) = {}

\* a wait_refresh_complete made after two requests that took the counter
\* from 2^32 - 2 over the wrap to 0
C20_Witness ==
    LET k == call[MainCaller] IN
    /\ k.op = "wait_refresh_complete" /\ k.pc = "done"
    /\ Len(sent) = 2
    /\ sent[1].marker = Sub32(MaxU32, U(1))
    /\ marker = U(0)

\* a dropped partial_refresh made after a request was sent
C20_WitnessDropped ==
    LET k == call[MainCaller] IN
    /\ k.op = "partial_refresh" /\ k.pc = "done" /\ OutOfBounds(k.region)
    /\ Len(sent) = 1
    /\ marker = Add32(sent[1].marker, U(1))

====
